---- MODULE Spec2Model ----
(***************************************************************************)
(* The casimport edge function of pogoksci/scimanager: registration of an  *)
(* inventory bottle (POST), as a state machine over the relational store,  *)
(* the blob store and the external registry.                               *)
(*                                                                         *)
(* Two revisions of the function are kept in the repository and both are   *)
(* modelled; `deployed` says which one answers the requests:               *)
(*   "serve"   : src/unnamed/part_000, lines 1-243.  The handler throws    *)
(*               and the router passed to serve() catches.                 *)
(*   "handler" : src/scimanager/supabase/functions/casimport/index.ts.     *)
(*               The handler catches itself and wraps every response in    *)
(*               withCorsHeaders; it has no auxiliary inserts and no       *)
(*               image upload.                                             *)
(*                                                                         *)
(* Every await of the handler is one action: the awaited call takes effect *)
(* in the store and the handler runs on to its next await (or to its       *)
(* response) without interruption, as on a single-threaded event loop.     *)
(* The calls of a Promise.all batch settle one by one, in any order.       *)
(*                                                                         *)
(* Strings the code computes with (identifiers, blob paths, URLs) are      *)
(* sequences of one-character strings; the empty sequence stands for       *)
(* null, undefined and "", which the code tests alike (||, if).  Row keys  *)
(* are positive integers and 0 stands for "not assigned".                  *)
(***************************************************************************)
EXTENDS Integers, Sequences, FiniteSets, TLC

VARIABLES
    deployed,    \* the revision that answers: "serve" or "handler"
    Substance,   \* table Substance: sequence of rows, the key is the index
    Auxiliary,   \* rows of Synonyms / Properties / Citations: set of [coll, substance_id]
    Inventory,   \* table Inventory: sequence of rows, the key is the index
    uuids,       \* number of crypto.randomUUID() values drawn so far
    req,         \* one record per request: the locals of its handler
    withPhotos,  \* number of requests whose body carried a photo payload
    withArrays,  \* number of registry payloads that carried an auxiliary array
    molecularFormula,   \* fullData.molecularFormula of a registry record
    molecular_formula,  \* substanceData.molecular_formula built from it
    Area,        \* table Area: set of rows [id, name]
    Cabinet,     \* table Cabinet: set of rows [id, area_id, name, ...]
    counters,    \* the last key of each table, and the cabinet requests with photos
    creq,        \* one record per cabinet request: the locals of its handler
    registration \* the revision of handleCabinetRegistration: "index" or "part_001"

\* The state of the registration of inventory, of the conversion of the
\* formula, and of the cabinet requests.
inventoryVars == <<Substance, Auxiliary, Inventory, uuids, req, withPhotos, withArrays>>
formulaVars == <<molecularFormula, molecular_formula>>
cabinetVars == <<Area, Cabinet, counters, creq, registration>>

vars == <<deployed, inventoryVars, formulaVars, cabinetVars>>

----------------------------------------------------------------------------
(* Bounds *)

\* Requests of a behaviour of Spec; they may all run at the same time, each in
\* its own execution context.
MaxConcurrent == 2
\* Requests of a behaviour of SpecSequential, where a request arrives only
\* after every earlier one has been answered.
MaxSequential == 3

\* Requests of a behaviour of SpecBody, whose bodies may be malformed; they may
\* all run at the same time.
MaxBodyReqs == 2

\* Requests of a behaviour of SpecLive, whose bodies may be malformed; a
\* request arrives only after every earlier one has been answered.
MaxLiveReqs == 2

\* Cabinet requests (registrations and deletions) of a behaviour of
\* SpecCabinet; they may all run at the same time.
MaxCabinetReqs == 3
\* Length of the formulas of SpecFormula that are drawn from the alphabet.
MaxFormulaLen == 5

\* Requests of a behaviour whose body carries a photo payload.
MaxPhotoReqs == 1
\* Registry payloads of a behaviour that carry an auxiliary array.
MaxArrayPayloads == 1

Reqs == 1..(CHOOSE n \in {MaxConcurrent, MaxSequential, MaxBodyReqs} :
                \A m \in {MaxConcurrent, MaxSequential, MaxBodyReqs} : m <= n)

----------------------------------------------------------------------------
(* Strings *)

NullStr == <<>>

\* "7-1", standing for a registry number such as 71-43-2.
IdPlain == <<"7", "-", "1">>
\* "7-1&_320.png": casRns[0] is any string of the request body, and the
\* handler neither validates nor URL-encodes it.
IdCrafted == <<"7", "-", "1", "&", "_", "3", "2", "0", ".", "p", "n", "g">>
\* The identifiers a request's casRns[0] is drawn from.
CasRns == {IdPlain, IdCrafted}

Suffix320 == <<"_", "3", "2", "0", ".", "p", "n", "g">>
Suffix160 == <<"_", "1", "6", "0", ".", "p", "n", "g">>

Digit(d) == <<"0", "1", "2", "3", "4", "5", "6", "7", "8", "9">>[d + 1]

\* String(n) of a non-negative integer, as a template literal renders it.
RECURSIVE NatToStr(_)
NatToStr(n) == IF n < 10 THEN <<Digit(n)>>
               ELSE NatToStr(n \div 10) \o <<Digit(n % 10)>>

\* String.prototype.includes
Includes(s, sub) ==
    \E i \in 0..(Len(s) - Len(sub)) :
        \A k \in 1..Len(sub) : s[i + k] = sub[k]

\* `${casRn}` in a template string: an undefined casRn reads "undefined".
Interpolate(casRn) ==
    IF casRn = NullStr THEN <<"u", "n", "d", "e", "f", "i", "n", "e", "d">> ELSE casRn

\* `${inventoryId}_${casRn}_320.png` and `${inventoryId}_${casRn}_160.png`
PhotoPath(inventoryId, casRn, res) ==
    NatToStr(inventoryId) \o <<"_">> \o Interpolate(casRn)
        \o (IF res = "320" THEN Suffix320 ELSE Suffix160)

\* getPublicUrl(path).data.publicUrl: the bucket's public base followed by the path.
PublicUrl(path) == <<"/">> \o path

\* A token that is the same at every call.
RandomUUIDFixed(k) == <<"u", "0">>

\* crypto.randomUUID(): the k-th value drawn (version 4 UUIDs are taken to be
\* distinct from one another).
RandomUUID(k) == <<"u">> \o NatToStr(k)

----------------------------------------------------------------------------
(* Responses *)

\* new Response(JSON.stringify(body), { status })
Response(body, status) == [body |-> body, status |-> status]

\* withCorsHeaders(response, status = 200): the status of the response passed
\* in is not read; every call site omits the second argument.
CorsDefaultStatus == 200
withCorsHeaders(response, status) == [body |-> response.body, status |-> status]

\* { error: errorMessage }
JsonError(msg) == [error |-> msg]

\* A result that reports every substance as already known.
JsonResultsStale(casRn, inventoryId, isNewSubstance) ==
    [results |-> <<[casRn |-> casRn, status |-> "success",
                    inventoryId |-> inventoryId,
                    isNewSubstance |-> FALSE]>>]

\* [{ casRn, status: 'success', inventoryId, isNewSubstance }]
JsonResults(casRn, inventoryId, isNewSubstance) ==
    [results |-> <<[casRn |-> casRn, status |-> "success",
                    inventoryId |-> inventoryId,
                    isNewSubstance |-> isNewSubstance]>>]

\* [{ casRn, status: 'success', id: substanceId, inventoryId: bottleIdentifier,
\*    isNewSubstance }]
JsonResultsWithId(casRn, substanceId, bottle, isNewSubstance) ==
    [results |-> <<[casRn |-> casRn, status |-> "success", id |-> substanceId,
                    inventoryId |-> bottle,
                    isNewSubstance |-> isNewSubstance]>>]

NoResponse == [body |-> [none |-> TRUE], status |-> 0]

\* The catch block that turns a thrown error into the response.
CatchResponse(msg) ==
    IF deployed = "serve"
    THEN Response(JsonError(msg), 500)
    ELSE withCorsHeaders(Response(JsonError(msg), 500), CorsDefaultStatus)

\* The final success response of the request with locals l.
SuccessResponse(l) ==
    IF deployed = "serve"
    THEN Response(JsonResults(l.casRn, l.inventoryId, l.isNewSubstance), 200)
    ELSE withCorsHeaders(
            Response(JsonResultsWithId(l.casRn, l.substanceId, l.bottleIdentifier,
                                       l.isNewSubstance), 200),
            CorsDefaultStatus)

\* The messages of the errors thrown (the Korean prefixes of the source, in English).
MsgLookup == "DB lookup error"
MsgRegistry == "CAS API call failed"
MsgSubstance == "Substance insert error"
MsgInventory == "Inventory insert error"
MsgDecode == "Failed to decode base64"
MsgBody == "Unexpected end of JSON input"
MsgNoList == "Cannot read properties of undefined (reading '0')"
MsgNoDetails == "Cannot read properties of undefined (reading 'purchase_volume')"

----------------------------------------------------------------------------
(* Request-local state *)

Collections == {"synonyms", "experimentalProperties", "predictedProperties", "citations"}
Resolutions == {"320", "160"}

\* A collection of the registry record: the field is missing, is [], or has rows.
ArrayKinds == {"absent", "empty", "rows"}

NoArrays == [c \in Collections |-> "absent"]

\* A photo payload of the request body: absent, a data URL that decodes, or a
\* string on which split(',')[1] / decode throws.
PhotoKinds == {"absent", "valid", "malformed"}

NoUploads == [res \in Resolutions |-> "none"]
NoUrls == [url_320 |-> NullStr, url_160 |-> NullStr]

\* What each request did, kept for the properties (not read by any action).
NoHist == [body |-> "ok", check |-> "", found |-> 0, calls |-> 0, created |-> 0,
           auxIssued |-> {},
           auxFailed |-> FALSE, inv |-> "none", update |-> "none", fatal |-> ""]

IdleReq == [pc |-> "idle", casRn |-> NullStr, details |-> TRUE, substanceId |-> 0,
            fullData |-> NoArrays,
            isNewSubstance |-> FALSE, auxPending |-> {},
            bottleIdentifier |-> NullStr, inventoryId |-> 0, up |-> NoUploads, photoUrls |-> NoUrls,
            response |-> NoResponse, h |-> NoHist]

\* No registry record read yet, and nothing built from it.
NoFormula == [state |-> "none", text |-> NullStr]
NoStored == [state |-> "none", value |-> NullStr]

CabinetReqs == 1..MaxCabinetReqs

\* What each cabinet request did, kept for the properties.
NoCabinetHist == [fatal |-> "", inserted |-> 0, removed |-> 0, emptied |-> FALSE,
                  areaDeleted |-> 0, orphaned |-> FALSE]

IdleCabinetReq == [kind |-> "none", pc |-> "idle", areaName |-> NullStr,
                   cabinetName |-> NullStr, areaId |-> 0, cabinetId |-> 0,
                   count |-> 0, up |-> NoUploads, photoUrls |-> NoUrls,
                   response |-> NoResponse, h |-> NoCabinetHist]

\* The stores and the requests before the first request arrives.
InitStores ==
    /\ deployed \in {"serve", "handler"}
    /\ Substance = <<>>
    /\ Auxiliary = {}
    /\ Inventory = <<>>
    /\ uuids = 0
    /\ req = [r \in Reqs |-> IdleReq]
    /\ withPhotos = 0
    /\ withArrays = 0
    /\ molecularFormula = NoFormula
    /\ molecular_formula = NoStored
    /\ Area = {}
    /\ Cabinet = {}
    /\ counters = [Area |-> 0, Cabinet |-> 0, withPhotos |-> 0]
    /\ creq = [c \in CabinetReqs |-> IdleCabinetReq]

\* The registration of cabinets is that of cabinet-register/index.ts.
Init == InitStores /\ registration = "index"

\* The registration of cabinets is either revision of the repository: that of
\* cabinet-register/index.ts, or the older one of part_001, which has neither
\* the check for a cabinet of the same name nor photos.
InitRegistration == InitStores /\ registration \in {"index", "part_001"}

\* The handler of context r ends with a response.
Respond(r, locals, response) ==
    req' = [req EXCEPT ![r] = [locals EXCEPT !.pc = "responded", !.response = response]]

\* A throw that no catch block answers: the request is left without a response.
ThrowUncaught(r, locals, msg, step) ==
    req' = [req EXCEPT ![r] = [locals EXCEPT !.pc = "thrown", !.h.fatal = step]]

\* The handler of context r throws; the catch block answers.
Throw(r, locals, msg, step) ==
    Respond(r, [locals EXCEPT !.h.fatal = step], CatchResponse(msg))

----------------------------------------------------------------------------
(* handlePostInventory *)

\* What receiving the r-th POST does: req.json() yields casRns and
\* inventoryDetails, and casRn = casRns[0].
Accept(r) ==
    /\ req[r].pc = "idle"
    /\ \A q \in Reqs : q < r => req[q].pc # "idle"
    /\ \E casRn \in CasRns :
        req' = [req EXCEPT ![r] = [IdleReq EXCEPT !.pc = "check", !.casRn = casRn]]
    /\ UNCHANGED <<formulaVars, cabinetVars, deployed, Substance, Auxiliary, Inventory, uuids, withPhotos, withArrays>>

\* A POST arrives, whatever the earlier requests are doing.
Receive(r) ==
    /\ r <= MaxConcurrent
    /\ Accept(r)

\* A POST arrives after every earlier request has been answered.
ReceiveAfter(r) ==
    /\ r <= MaxSequential
    /\ \A q \in Reqs : req[q].pc \in {"idle", "responded"}
    /\ Accept(r)

\* The shapes of a POST body: well-formed; not JSON; without casRns; with an
\* empty casRns; without inventoryDetails.
BodyKinds == {"ok", "invalid", "noList", "emptyList", "noDetails"}

\* A POST arrives with a body of any shape.  req.json() throws on a body that is
\* not JSON and casRns[0] throws when casRns is missing; casRns[0] of an empty
\* list is undefined, and a missing inventoryDetails is first read when the
\* Inventory row is built.
ReceiveBody(r) ==
    /\ r <= MaxBodyReqs
    /\ req[r].pc = "idle"
    /\ \A q \in Reqs : q < r => req[q].pc # "idle"
    /\ \E body \in BodyKinds, id \in CasRns :
        LET l == [IdleReq EXCEPT !.h.body = body] IN
        CASE body = "invalid" -> Throw(r, l, MsgBody, "body")
          [] body = "noList" -> Throw(r, l, MsgNoList, "body")
          [] body = "emptyList" ->
                req' = [req EXCEPT ![r] = [l EXCEPT !.pc = "check"]]
          [] body = "noDetails" ->
                req' = [req EXCEPT ![r] = [l EXCEPT !.pc = "check", !.casRn = id,
                                                   !.details = FALSE]]
          [] OTHER ->
                req' = [req EXCEPT ![r] = [l EXCEPT !.pc = "check", !.casRn = id]]
    /\ UNCHANGED <<formulaVars, cabinetVars, deployed, Substance, Auxiliary, Inventory, uuids, withPhotos, withArrays>>

\* .single(): the row when exactly one row matches; otherwise (none, or several)
\* the error PGRST116 and no data.  Any query can also fail for another reason.
Single(keys) ==
    { IF Cardinality(keys) = 1
      THEN [data |-> CHOOSE k \in keys : TRUE, error |-> ""]
      ELSE [data |-> 0, error |-> "PGRST116"] }
    \cup {[data |-> 0, error |-> "OTHER"]}

\* from('Substance').select('id').eq('cas_rn', casRn).  An undefined casRn is
\* sent as the text "undefined", which no stored identifier equals, and a null
\* cas_rn equals nothing.
SubstanceKeys(casRn) ==
    IF casRn = NullStr THEN {}
    ELSE {k \in DOMAIN Substance : Substance[k].cas_rn = casRn}

\* A check that answers every outcome with an error response.
IsFatalAlways(error) == TRUE

\* checkError && checkError.code !== 'PGRST116'
IsFatal(error) == error # "" /\ error # "PGRST116"

\* The existence check and the branch on its result.
ExistenceCheck(r) ==
    LET l == req[r]
        keys == SubstanceKeys(l.casRn)
        found == IF Cardinality(keys) > 1 THEN 2 ELSE Cardinality(keys)
    IN
    /\ l.pc = "check"
    /\ \E res \in Single(keys) :
        LET l1 == [l EXCEPT !.h.found = found,
                            !.h.check = IF res.data # 0 THEN "row" ELSE res.error] IN
        IF IsFatal(res.error)
        THEN Throw(r, l1, MsgLookup, "check")
        ELSE IF res.data # 0
        THEN req' = [req EXCEPT ![r] = [l1 EXCEPT !.substanceId = res.data,
                                                  !.pc = "insertInventory"]]
        ELSE req' = [req EXCEPT ![r] = [l1 EXCEPT !.isNewSubstance = TRUE,
                                                  !.pc = "fetch"]]
    /\ UNCHANGED <<formulaVars, cabinetVars, deployed, Substance, Auxiliary, Inventory, uuids, withPhotos, withArrays>>

\* The arrays of the records the registry answers with.
PayloadArrays ==
    { NoArrays,
      [NoArrays EXCEPT !["synonyms"] = "rows", !["experimentalProperties"] = "rows"],
      [NoArrays EXCEPT !["predictedProperties"] = "rows", !["citations"] = "rows"],
      [NoArrays EXCEPT !["synonyms"] = "rows", !["citations"] = "empty"] }

\* The value of cas_rn in `...?cas_rn=${casRn}` as the registry reads it: the
\* text up to the first "&".
RECURSIVE QueryValue(_)
QueryValue(s) ==
    IF s = <<>> \/ Head(s) = "&" THEN <<>>
    ELSE <<Head(s)>> \o QueryValue(Tail(s))

\* The payloads the registry may answer a query for casRn with: the record of
\* the number it read, with or without the field rn, and some of the arrays.
Payloads(casRn) ==
    [rn : {NullStr, QueryValue(Interpolate(casRn))}, arrays : PayloadArrays]

\* The registry has a record for the number it read.
RegistryKnows(casRn) == QueryValue(Interpolate(casRn)) = IdPlain

\* A fetch that tries a second time before it gives up.
FetchCasDetailRetry(r) ==
    LET l == [req[r] EXCEPT !.h.calls = @ + 1]
        l2 == [req[r] EXCEPT !.h.calls = @ + 2]
    IN
    /\ req[r].pc = "fetch"
    /\ \/ Throw(r, l2, MsgRegistry, "fetch")
       \/ /\ RegistryKnows(req[r].casRn)
          /\ req' = [req EXCEPT ![r] = [l EXCEPT !.pc = "insertSubstance"]]
    /\ UNCHANGED <<formulaVars, cabinetVars, deployed, Substance, Auxiliary, Inventory, uuids, withPhotos, withArrays>>

\* fetchCasDetail: one GET; a non-ok status or a network failure throws.
FetchCasDetail(r) ==
    LET l == [req[r] EXCEPT !.h.calls = @ + 1] IN
    /\ req[r].pc = "fetch"
    /\ \/ Throw(r, l, MsgRegistry, "fetch")
       \/ /\ RegistryKnows(req[r].casRn)
          /\ req' = [req EXCEPT ![r] = [l EXCEPT !.pc = "insertSubstance"]]
    /\ UNCHANGED <<formulaVars, cabinetVars, deployed, Substance, Auxiliary, Inventory, uuids, withPhotos, withArrays>>

\* a || b on strings
OrElse(a, b) == IF a # NullStr THEN a ELSE b

\* substanceData.cas_rn
SubstanceCasRn(fullData, casRn) ==
    IF deployed = "serve" THEN OrElse(fullData.rn, casRn) ELSE fullData.rn

\* The auxiliary inserts pushed after the Substance insert: one for every
\* collection c with fullData[c] && Array.isArray(fullData[c]), and [] is truthy.
AuxiliaryInsertions(fullData) ==
    IF deployed = "serve"
    THEN {c \in Collections : fullData.arrays[c] # "absent"}
    ELSE {}

\* Insert of the Substance row, then the batch of auxiliary inserts is issued.
InsertSubstance(r) ==
    LET l == req[r]
        key == Len(Substance) + 1
    IN
    /\ l.pc = "insertSubstance"
    /\ \E fullData \in Payloads(l.casRn), ok \in BOOLEAN :
       LET aux == AuxiliaryInsertions(fullData)
           n == IF fullData.arrays = NoArrays THEN 0 ELSE 1
       IN
       /\ withArrays + n <= MaxArrayPayloads
       /\ withArrays' = withArrays + n
       /\ IF ~ok
          THEN /\ Throw(r, l, MsgSubstance, "substance")
               /\ UNCHANGED Substance
          ELSE /\ Substance' = Append(Substance,
                    [cas_rn |-> SubstanceCasRn(fullData, l.casRn), by |-> r])
               /\ req' = [req EXCEPT ![r] =
                    [l EXCEPT !.substanceId = key,
                              !.h.created = key,
                              !.fullData = fullData.arrays,
                              !.h.auxIssued = aux,
                              !.auxPending = aux,
                              !.pc = IF aux = {} THEN "insertInventory" ELSE "aux"]]
    /\ UNCHANGED <<formulaVars, cabinetVars, deployed, Auxiliary, Inventory, uuids, withPhotos>>

\* One insert of the auxiliary batch settles; after the last one the handler
\* logs the errors and goes on.
AuxInsertSettle(r) ==
    LET l == req[r] IN
    /\ l.pc = "aux"
    /\ \E c \in l.auxPending, ok \in BOOLEAN :
        LET left == l.auxPending \ {c} IN
        /\ Auxiliary' = IF ok /\ l.fullData[c] = "rows"
                        THEN Auxiliary \cup {[coll |-> c, substance_id |-> l.substanceId]}
                        ELSE Auxiliary
        /\ req' = [req EXCEPT ![r] =
                [l EXCEPT !.auxPending = left,
                          !.h.auxFailed = (@ \/ ~ok),
                          !.pc = IF left = {} THEN "insertInventory" ELSE "aux"]]
    /\ UNCHANGED <<formulaVars, cabinetVars, deployed, Substance, Inventory, uuids, withPhotos, withArrays>>

\* The loop over uploadResults, in the order the uploads were pushed (320, then
\* 160): a result with data sets every URL field whose suffix its path includes.
RECURSIVE CollectUrls(_, _)
CollectUrls(results, urls) ==
    IF results = <<>> THEN urls
    ELSE LET path == Head(results)
             u1 == IF Includes(path, Suffix320)
                   THEN [urls EXCEPT !.url_320 = PublicUrl(path)] ELSE urls
             u2 == IF Includes(path, Suffix160)
                   THEN [u1 EXCEPT !.url_160 = PublicUrl(path)] ELSE u1
         IN CollectUrls(Tail(results), u2)

\* The paths of the uploads that returned data, in the order of uploadPromises.
UploadedPaths(l, up) ==
    (IF up["320"] = "ok" THEN <<PhotoPath(l.inventoryId, l.casRn, "320")>> ELSE <<>>)
    \o (IF up["160"] = "ok" THEN <<PhotoPath(l.inventoryId, l.casRn, "160")>> ELSE <<>>)

\* The update issued whether or not a URL was obtained.
AfterUploadsAlways(r, l) ==
    req' = [req EXCEPT ![r] =
        [l EXCEPT !.photoUrls = CollectUrls(UploadedPaths(l, l.up), NoUrls),
                  !.pc = "update"]]

\* After Promise.all(uploadPromises): the URLs are collected; with a URL the
\* handler goes on to the update, without one it answers.
AfterUploads(r, l) ==
    LET urls == CollectUrls(UploadedPaths(l, l.up), NoUrls)
        l1 == [l EXCEPT !.photoUrls = urls]
    IN
    IF urls.url_320 # NullStr \/ urls.url_160 # NullStr
    THEN req' = [req EXCEPT ![r] = [l1 EXCEPT !.pc = "update"]]
    ELSE Respond(r, l1, SuccessResponse(l1))

\* The uploads pushed for the payloads supplied: a payload that is present is
\* decoded and its upload issued.
Pushed(p320, p160) ==
    [res \in Resolutions |->
        IF (IF res = "320" THEN p320 ELSE p160) = "valid" THEN "pending" ELSE "none"]

\* Lines 160-173: the payloads supplied are decoded, 320 first, and their
\* uploads issued; a payload that does not decode throws, and an upload issued
\* before the throw stays in flight, awaited by nobody.
IssueUploads(r, l, p320, p160) ==
    IF p320 = "malformed"
    THEN Throw(r, l, MsgDecode, "decode")
    ELSE IF p160 = "malformed"
    THEN Throw(r, [l EXCEPT !.up = Pushed(p320, "absent")], MsgDecode, "decode")
    ELSE LET l1 == [l EXCEPT !.up = Pushed(p320, p160)] IN
         IF \E res \in Resolutions : l1.up[res] = "pending"
         THEN req' = [req EXCEPT ![r] = [l1 EXCEPT !.pc = "upload"]]
         ELSE AfterUploads(r, l1)

\* A row written with a key the store has not assigned yet.
InventoryRowUnresolved(substanceId, bottle, r) ==
    [substance_id |-> Len(Substance) + 1, bottle_identifier |-> bottle,
     photo_url_320 |-> NullStr, photo_url_160 |-> NullStr, by |-> r]

\* The row inserted into Inventory: the key of the resolved substance, the
\* bottle identifier, and no photo URL yet (by: the request that inserted it).
InventoryRow(substanceId, bottle, r) ==
    [substance_id |-> substanceId, bottle_identifier |-> bottle,
     photo_url_320 |-> NullStr, photo_url_160 |-> NullStr, by |-> r]

\* Insert of the Inventory row; the revision with photos goes on to the uploads
\* and the other one answers.
InsertInventory(r) ==
    LET l == req[r]
        key == Len(Inventory) + 1
        bottle == Interpolate(l.casRn) \o <<"-">> \o RandomUUID(uuids + 1)
        l0 == [l EXCEPT !.bottleIdentifier = bottle]
        l1 == [l0 EXCEPT !.inventoryId = key, !.h.inv = "ok"]
    IN
    /\ l.pc = "insertInventory"
    /\ uuids' = uuids + 1
    /\ \E ok \in BOOLEAN, p320 \in PhotoKinds, p160 \in PhotoKinds :
       LET n == IF p320 = "absent" /\ p160 = "absent" THEN 0 ELSE 1 IN
       /\ withPhotos + n <= MaxPhotoReqs
       /\ withPhotos' = withPhotos + n
       /\ IF ~l.details
          THEN /\ Throw(r, l0, MsgNoDetails, "details")
               /\ UNCHANGED Inventory
          ELSE IF ~ok
          THEN /\ Throw(r, [l0 EXCEPT !.h.inv = "err"], MsgInventory, "inventory")
               /\ UNCHANGED Inventory
          ELSE /\ Inventory' = Append(Inventory, InventoryRow(l.substanceId, bottle, r))
               /\ IF deployed = "handler"
                  THEN Respond(r, l1, SuccessResponse(l1))
                  ELSE IssueUploads(r, l1, p320, p160)
    /\ UNCHANGED <<formulaVars, cabinetVars, deployed, Substance, Auxiliary, withArrays>>

\* One upload of the batch settles: { data: { path }, error: null } or
\* { data: null, error }.  After the last one the results are read.
UploadSettle(r) ==
    LET l == req[r] IN
    /\ l.pc = "upload"
    /\ \E res \in Resolutions, ok \in BOOLEAN :
        /\ l.up[res] = "pending"
        /\ LET l1 == [l EXCEPT !.up[res] = IF ok THEN "ok" ELSE "err"] IN
           IF \E other \in Resolutions : l1.up[other] = "pending"
           THEN req' = [req EXCEPT ![r] = l1]
           ELSE AfterUploads(r, l1)
    /\ UNCHANGED <<formulaVars, cabinetVars, deployed, Substance, Auxiliary, Inventory, uuids, withPhotos, withArrays>>

\* update({ photo_url_320, photo_url_160 }).eq('id', inventoryId); its error is
\* logged only, and the handler answers.
UpdatePhotoUrls(r) ==
    LET l == req[r] IN
    /\ l.pc = "update"
    /\ \E ok \in BOOLEAN :
        /\ Inventory' = IF ok
                        THEN [Inventory EXCEPT ![l.inventoryId] =
                                [@ EXCEPT !.photo_url_320 = l.photoUrls.url_320,
                                          !.photo_url_160 = l.photoUrls.url_160]]
                        ELSE Inventory
        /\ Respond(r, [l EXCEPT !.h.update = IF ok THEN "ok" ELSE "err"],
                   SuccessResponse(l))
    /\ UNCHANGED <<formulaVars, cabinetVars, deployed, Substance, Auxiliary, uuids, withPhotos, withArrays>>

Handle(r) ==
    \/ ExistenceCheck(r)
    \/ FetchCasDetail(r)
    \/ InsertSubstance(r)
    \/ AuxInsertSettle(r)
    \/ InsertInventory(r)
    \/ UploadSettle(r)
    \/ UpdatePhotoUrls(r)

Next == \E r \in Reqs : Receive(r) \/ Handle(r)

Spec == Init /\ [][Next]_vars

\* Every awaited call of a request that is being handled settles in the end:
\* the step that waits for it is taken.
Fairness == \A r \in Reqs : WF_vars(Handle(r))

\* A POST with a body of any shape arrives after every earlier request has
\* been answered.
ReceiveLive(r) ==
    /\ r <= MaxLiveReqs
    /\ \A q \in Reqs : req[q].pc \in {"idle", "responded"}
    /\ ReceiveBody(r)

NextLive == \E r \in Reqs : ReceiveLive(r) \/ Handle(r)

SpecLive == Init /\ [][NextLive]_vars /\ Fairness

NextSequential == \E r \in Reqs : ReceiveAfter(r) \/ Handle(r)

SpecSequential == Init /\ [][NextSequential]_vars

NextBody == \E r \in Reqs : ReceiveBody(r) \/ Handle(r)

SpecBody == Init /\ [][NextBody]_vars

----------------------------------------------------------------------------
(* substanceData.molecular_formula *)

\* The characters the formulas are drawn from: an element symbol, the
\* characters of the markup, and the letters of the tag "em".
FormulaAlphabet == {"C", "<", ">", "/", "e", "m"}

\* "C<sub>6</sub>H<sub>6</sub>"
Benzene == <<"C", "<", "s", "u", "b", ">", "6", "<", "/", "s", "u", "b", ">",
             "H", "<", "s", "u", "b", ">", "6", "<", "/", "s", "u", "b", ">">>

\* The values of fullData.molecularFormula: every string over the alphabet up
\* to the length bound, and the formula of benzene.
Formulas ==
    UNION {[1..n -> FormulaAlphabet] : n \in 0..MaxFormulaLen} \cup {Benzene}

StartsWith(s, lit) == Len(lit) <= Len(s) /\ SubSeq(s, 1, Len(lit)) = lit

\* /<.+?>/ at the head of s: the length of the match, 0 without a match.  "<",
\* then as few characters as possible but at least one, then ">".
LazyTag(s) ==
    IF s # <<>> /\ Head(s) = "<" /\ \E j \in 3..Len(s) : s[j] = ">"
    THEN CHOOSE j \in 3..Len(s) : s[j] = ">" /\ \A k \in 3..(j - 1) : s[k] # ">"
    ELSE 0

\* The alternatives of /<\/?sub>|<\/?sup>|<\/?em>/
ListedTags ==
    { <<"<", "s", "u", "b", ">">>, <<"<", "/", "s", "u", "b", ">">>,
      <<"<", "s", "u", "p", ">">>, <<"<", "/", "s", "u", "p", ">">>,
      <<"<", "e", "m", ">">>, <<"<", "/", "e", "m", ">">> }

\* /<\/?sub>|<\/?sup>|<\/?em>/ at the head of s: the length of the match, 0
\* without a match.
ListedTag(s) ==
    IF \E t \in ListedTags : StartsWith(s, t)
    THEN Len(CHOOSE t \in ListedTags : StartsWith(s, t))
    ELSE 0

\* s.replace(/<.+?>/g, '')
RECURSIVE ReplaceLazyTags(_)
ReplaceLazyTags(s) ==
    IF s = <<>> THEN <<>>
    ELSE IF LazyTag(s) > 0 THEN ReplaceLazyTags(SubSeq(s, LazyTag(s) + 1, Len(s)))
    ELSE <<Head(s)>> \o ReplaceLazyTags(Tail(s))

\* s.replace(/<\/?sub>|<\/?sup>|<\/?em>/g, '')
RECURSIVE ReplaceListedTags(_)
ReplaceListedTags(s) ==
    IF s = <<>> THEN <<>>
    ELSE IF ListedTag(s) > 0 THEN ReplaceListedTags(SubSeq(s, ListedTag(s) + 1, Len(s)))
    ELSE <<Head(s)>> \o ReplaceListedTags(Tail(s))

\* substanceData.molecular_formula.  part_000:
\* fullData.molecularFormula?.replace(/<.+?>/g, '') || null; casimport/index.ts:
\* fullData.molecularFormula.replace(...), which throws on a missing formula.
MolecularFormulaOf(formula) ==
    IF deployed = "serve"
    THEN [state |-> "stored",
          value |-> IF formula.state = "missing" THEN NullStr
                    ELSE ReplaceLazyTags(formula.text)]
    ELSE IF formula.state = "missing"
    THEN [state |-> "raised", value |-> NullStr]
    ELSE [state |-> "stored", value |-> ReplaceListedTags(formula.text)]

\* The registry answers with a record, with or without a molecularFormula.
ReadFormula ==
    /\ molecularFormula.state = "none"
    /\ \/ molecularFormula' = [state |-> "missing", text |-> NullStr]
       \/ \E text \in Formulas : molecularFormula' = [state |-> "text", text |-> text]
    /\ UNCHANGED <<deployed, inventoryVars, cabinetVars, molecular_formula>>

\* substanceData is built from the record.
BuildSubstanceData ==
    /\ molecularFormula.state # "none"
    /\ molecular_formula.state = "none"
    /\ molecular_formula' = MolecularFormulaOf(molecularFormula)
    /\ UNCHANGED <<deployed, inventoryVars, cabinetVars, molecularFormula>>

NextFormula == ReadFormula \/ BuildSubstanceData

SpecFormula == Init /\ [][NextFormula]_vars

----------------------------------------------------------------------------
(* Cabinet requests: handleCabinetRegistration and handleCabinetDeletion *)

\* Registration is that of cabinet-register/index.ts.  Deletion is
\* handleCabinetDeletion of part_000 when deployed = "serve" (it throws and the
\* router catches) and that of cabinet-register/index.ts otherwise (it catches
\* itself and wraps every response in withCorsHeaders).

\* The values of area_name and cabinet_name in the body of a registration.
AreaNameInputs == {<<"a">>, <<" ", "a">>, <<"b">>, <<" ">>}
CabinetNameInputs == {<<"k">>, <<"k", " ">>, <<>>}

\* The values of the query parameter id of a deletion; 0: no parameter.
CabinetIdInputs == 0..(MaxCabinetReqs - 1)

RECURSIVE TrimStart(_)
TrimStart(s) == IF s # <<>> /\ Head(s) = " " THEN TrimStart(Tail(s)) ELSE s

RECURSIVE TrimEnd(_)
TrimEnd(s) ==
    IF s # <<>> /\ s[Len(s)] = " " THEN TrimEnd(SubSeq(s, 1, Len(s) - 1)) ELSE s

\* s?.trim() || ''
Trim(s) == TrimEnd(TrimStart(s))

MsgMissingNames == "Required data (area or cabinet name) is missing"
MsgMissingOrMalformed == "Required data (area or cabinet name) is missing or malformed"
MsgAreaInsert == "Area insert error"
MsgDuplicate == "A cabinet of that name already exists in the area"
MsgCabinetInsert == "Cabinet insert error"
MsgNoId == "The id of the cabinet to delete is required"
MsgNotFound == "The cabinet to delete was not found"
MsgDelete == "DB delete error"

\* errorMessage.includes('이미 존재합니다'): of the messages thrown, only the one
\* of the duplicate has the phrase.
IsDuplicateMessage(msg) == msg = MsgDuplicate

\* The catch block of handleCabinetRegistration; that of part_001 has 500 only.
RegistrationCatch(msg) ==
    withCorsHeaders(
        Response(JsonError(msg),
                 IF registration = "index" /\ IsDuplicateMessage(msg) THEN 409 ELSE 500),
        CorsDefaultStatus)

\* The catch block that answers a deletion that throws.
DeletionCatch(msg) ==
    IF deployed = "serve"
    THEN Response(JsonError(msg), 500)
    ELSE withCorsHeaders(Response(JsonError(msg), 500), CorsDefaultStatus)

\* { status: 'success', cabinetId, cabinetName }
JsonCabinet(cabinetId, cabinetName) ==
    [status |-> "success", cabinetId |-> cabinetId, cabinetName |-> cabinetName]

\* { message: `ID ${cabinetId} ...` }
JsonDeleted(cabinetId) == [message |-> cabinetId]

RegistrationSuccess(l) ==
    withCorsHeaders(Response(JsonCabinet(l.cabinetId, l.cabinetName), 200),
                    CorsDefaultStatus)

DeletionSuccess(l) ==
    IF deployed = "serve"
    THEN Response(JsonDeleted(l.cabinetId), 200)
    ELSE withCorsHeaders(Response(JsonDeleted(l.cabinetId), 200), CorsDefaultStatus)

\* The handler of cabinet request c ends with a response.
CabinetRespond(c, locals, response) ==
    creq' = [creq EXCEPT ![c] = [locals EXCEPT !.pc = "responded",
                                               !.response = response]]

\* The handler of cabinet request c throws; the catch block answers.
CabinetThrow(c, locals, msg, step) ==
    CabinetRespond(c, [locals EXCEPT !.h.fatal = step],
                   IF locals.kind = "register" THEN RegistrationCatch(msg)
                   ELSE DeletionCatch(msg))

\* After the Area is known: the check for a cabinet of the same name, which
\* part_001 does not have.
AfterArea == IF registration = "index" THEN "cabinetCheck" ELSE "cabinetInsert"

\* A POST arrives at cabinet-register: a body that is not JSON throws; the
\* names are trimmed, and a name that is missing or blank throws.  In part_001
\* the names are tested before they are trimmed.
ReceiveRegistration(c) ==
    /\ creq[c].pc = "idle"
    /\ \A q \in CabinetReqs : q < c => creq[q].pc # "idle"
    /\ \E json \in BOOLEAN, area_name \in AreaNameInputs,
          cabinet_name \in CabinetNameInputs :
        LET l0 == [IdleCabinetReq EXCEPT !.kind = "register"]
            l == [l0 EXCEPT !.areaName = Trim(area_name),
                            !.cabinetName = Trim(cabinet_name)]
        IN
        IF ~json
        THEN CabinetThrow(c, l0, MsgBody, "body")
        ELSE IF registration = "part_001"
        THEN \* !area_name || !cabinet_name, tested before the trim
             IF area_name = NullStr \/ cabinet_name = NullStr
             THEN CabinetThrow(c, l0, MsgMissingOrMalformed, "missing")
             ELSE creq' = [creq EXCEPT ![c] = [l EXCEPT !.pc = "areaLookup"]]
        ELSE IF Len(l.areaName) = 0 \/ Len(l.cabinetName) = 0
        THEN CabinetThrow(c, l, MsgMissingNames, "missing")
        ELSE creq' = [creq EXCEPT ![c] = [l EXCEPT !.pc = "areaLookup"]]
    /\ UNCHANGED <<deployed, registration, inventoryVars, formulaVars, Area, Cabinet, counters>>

\* A DELETE arrives: without the parameter id it throws.
ReceiveDeletion(c) ==
    /\ creq[c].pc = "idle"
    /\ \A q \in CabinetReqs : q < c => creq[q].pc # "idle"
    /\ \E id \in CabinetIdInputs :
        LET l == [IdleCabinetReq EXCEPT !.kind = "delete", !.cabinetId = id] IN
        IF id = 0
        THEN CabinetThrow(c, l, MsgNoId, "missing")
        ELSE creq' = [creq EXCEPT ![c] = [l EXCEPT !.pc = "select"]]
    /\ UNCHANGED <<deployed, registration, inventoryVars, formulaVars, Area, Cabinet, counters>>

\* from('Area').select('id').eq('name', areaName).single(): only data is read,
\* so every error, and not only "no rows", leads to the insert of the Area.
AreaLookup(c) ==
    LET l == creq[c] IN
    /\ l.pc = "areaLookup"
    /\ \E res \in Single({a.id : a \in {x \in Area : x.name = l.areaName}}) :
        IF res.data # 0
        THEN creq' = [creq EXCEPT ![c] = [l EXCEPT !.areaId = res.data,
                                                   !.pc = AfterArea]]
        ELSE creq' = [creq EXCEPT ![c] = [l EXCEPT !.pc = "areaInsert"]]
    /\ UNCHANGED <<deployed, registration, inventoryVars, formulaVars, Area, Cabinet, counters>>

\* from('Area').insert([{ name: areaName }]).select('id').single()
AreaInsert(c) ==
    LET l == creq[c]
        id == counters.Area + 1
    IN
    /\ l.pc = "areaInsert"
    /\ \E ok \in BOOLEAN :
        IF ok
        THEN /\ Area' = Area \cup {[id |-> id, name |-> l.areaName]}
             /\ counters' = [counters EXCEPT !.Area = id]
             /\ creq' = [creq EXCEPT ![c] = [l EXCEPT !.areaId = id,
                                                      !.pc = AfterArea]]
        ELSE /\ CabinetThrow(c, l, MsgAreaInsert, "area")
             /\ UNCHANGED <<Area, counters>>
    /\ UNCHANGED <<deployed, registration, inventoryVars, formulaVars, Cabinet>>

\* The check for a cabinet of that name in the area, and the branch on it.
CabinetCheck(c) ==
    LET l == creq[c]
        keys == {k.id : k \in {x \in Cabinet : x.area_id = l.areaId
                                               /\ x.name = l.cabinetName}}
    IN
    /\ l.pc = "cabinetCheck"
    /\ \E res \in Single(keys) :
        IF IsFatal(res.error)
        THEN CabinetThrow(c, l, MsgLookup, "check")
        ELSE IF res.data # 0
        THEN CabinetThrow(c, l, MsgDuplicate, "duplicate")
        ELSE creq' = [creq EXCEPT ![c] = [l EXCEPT !.pc = "cabinetInsert"]]
    /\ UNCHANGED <<deployed, registration, inventoryVars, formulaVars, Area, Cabinet, counters>>

\* `${cabinetId}_320.png` and `${cabinetId}_160.png`
CabinetPhotoPath(cabinetId, res) ==
    NatToStr(cabinetId) \o (IF res = "320" THEN Suffix320 ELSE Suffix160)

CabinetUploadedPaths(l) ==
    (IF l.up["320"] = "ok" THEN <<CabinetPhotoPath(l.cabinetId, "320")>> ELSE <<>>)
    \o (IF l.up["160"] = "ok" THEN <<CabinetPhotoPath(l.cabinetId, "160")>> ELSE <<>>)

\* After Promise.all(uploadPromises) of the registration.
AfterCabinetUploads(c, l) ==
    LET urls == CollectUrls(CabinetUploadedPaths(l), NoUrls)
        l1 == [l EXCEPT !.photoUrls = urls]
    IN
    IF urls.url_320 # NullStr \/ urls.url_160 # NullStr
    THEN creq' = [creq EXCEPT ![c] = [l1 EXCEPT !.pc = "update"]]
    ELSE CabinetRespond(c, l1, RegistrationSuccess(l1))

\* The payloads supplied are decoded, 320 first, and their uploads issued.
IssueCabinetUploads(c, l, p320, p160) ==
    IF p320 = "malformed"
    THEN CabinetThrow(c, l, MsgDecode, "decode")
    ELSE IF p160 = "malformed"
    THEN CabinetThrow(c, [l EXCEPT !.up = Pushed(p320, "absent")], MsgDecode, "decode")
    ELSE LET l1 == [l EXCEPT !.up = Pushed(p320, p160)] IN
         IF \E res \in Resolutions : l1.up[res] = "pending"
         THEN creq' = [creq EXCEPT ![c] = [l1 EXCEPT !.pc = "upload"]]
         ELSE AfterCabinetUploads(c, l1)

\* The row inserted into Cabinet (the door, shelf and column counts left out).
CabinetRow(id, areaId, name) ==
    [id |-> id, area_id |-> areaId, name |-> name,
     photo_url_320 |-> NullStr, photo_url_160 |-> NullStr]

\* The photo payloads that the registration reads: part_001 reads none.
CabinetPhotoKinds == IF registration = "index" THEN PhotoKinds ELSE {"absent"}

\* Insert of the Cabinet row, then the photos.
CabinetInsert(c) ==
    LET l == creq[c]
        id == counters.Cabinet + 1
        l1 == [l EXCEPT !.cabinetId = id, !.h.inserted = id]
    IN
    /\ l.pc = "cabinetInsert"
    /\ \E ok \in BOOLEAN, p320 \in CabinetPhotoKinds, p160 \in CabinetPhotoKinds :
       LET n == IF p320 = "absent" /\ p160 = "absent" THEN 0 ELSE 1 IN
       /\ counters.withPhotos + n <= MaxPhotoReqs
       /\ IF ~ok
          THEN /\ CabinetThrow(c, l, MsgCabinetInsert, "cabinet")
               /\ counters' = [counters EXCEPT !.withPhotos = @ + n]
               /\ UNCHANGED Cabinet
          ELSE /\ Cabinet' = Cabinet \cup {CabinetRow(id, l.areaId, l.cabinetName)}
               /\ counters' = [counters EXCEPT !.Cabinet = id, !.withPhotos = @ + n]
               /\ IssueCabinetUploads(c, l1, p320, p160)
    /\ UNCHANGED <<deployed, registration, inventoryVars, formulaVars, Area>>

\* One upload of the batch settles; after the last one the results are read.
CabinetUploadSettle(c) ==
    LET l == creq[c] IN
    /\ l.pc = "upload"
    /\ \E res \in Resolutions, ok \in BOOLEAN :
        /\ l.up[res] = "pending"
        /\ LET l1 == [l EXCEPT !.up[res] = IF ok THEN "ok" ELSE "err"] IN
           IF \E other \in Resolutions : l1.up[other] = "pending"
           THEN creq' = [creq EXCEPT ![c] = l1]
           ELSE AfterCabinetUploads(c, l1)
    /\ UNCHANGED <<deployed, registration, inventoryVars, formulaVars, Area, Cabinet, counters>>

\* update({ photo_url_320, photo_url_160 }).eq('id', cabinetId): the rows with
\* that id, if there still is one; its error is logged only.
CabinetUpdate(c) ==
    LET l == creq[c] IN
    /\ l.pc = "update"
    /\ \E ok \in BOOLEAN :
        /\ Cabinet' = IF ok
                      THEN {IF k.id = l.cabinetId
                            THEN [k EXCEPT !.photo_url_320 = l.photoUrls.url_320,
                                           !.photo_url_160 = l.photoUrls.url_160]
                            ELSE k : k \in Cabinet}
                      ELSE Cabinet
        /\ CabinetRespond(c, l, RegistrationSuccess(l))
    /\ UNCHANGED <<deployed, registration, inventoryVars, formulaVars, Area, counters>>

\* from('Cabinet').select('area_id').eq('id', cabinetId).single(): an error, "no
\* rows" included, or no data throws.
DeletionSelect(c) ==
    LET l == creq[c] IN
    /\ l.pc = "select"
    /\ \E res \in Single({k.id : k \in {x \in Cabinet : x.id = l.cabinetId}}) :
        IF res.error # "" \/ res.data = 0
        THEN CabinetThrow(c, l, MsgNotFound, "notFound")
        ELSE creq' = [creq EXCEPT ![c] =
                [l EXCEPT !.areaId = (CHOOSE k \in Cabinet : k.id = res.data).area_id,
                          !.pc = "delete"]]
    /\ UNCHANGED <<deployed, registration, inventoryVars, formulaVars, Area, Cabinet, counters>>

\* from('Cabinet').delete().eq('id', cabinetId)
DeletionDelete(c) ==
    LET l == creq[c]
        rows == {k \in Cabinet : k.id = l.cabinetId}
    IN
    /\ l.pc = "delete"
    /\ \E ok \in BOOLEAN :
        IF ok
        THEN /\ Cabinet' = Cabinet \ rows
             /\ creq' = [creq EXCEPT ![c] =
                    [l EXCEPT !.h.removed = IF rows = {} THEN 0 ELSE l.cabinetId,
                              !.pc = "count"]]
        ELSE /\ CabinetThrow(c, l, MsgDelete, "delete")
             /\ UNCHANGED Cabinet
    /\ UNCHANGED <<deployed, registration, inventoryVars, formulaVars, Area, counters>>

\* The count of the cabinets left in the area: count is null (-1 here) when the
\* query fails, which is logged only.  Only count === 0 leads to the delete of
\* the Area.
DeletionCount(c) ==
    LET l == creq[c]
        left == Cardinality({k \in Cabinet : k.area_id = l.areaId})
    IN
    /\ l.pc = "count"
    /\ \E count \in {left, -1} :
        LET l1 == [l EXCEPT !.count = count, !.h.emptied = (left = 0)] IN
        IF count = 0
        THEN creq' = [creq EXCEPT ![c] = [l1 EXCEPT !.pc = "areaDelete"]]
        ELSE CabinetRespond(c, l1, DeletionSuccess(l1))
    /\ UNCHANGED <<deployed, registration, inventoryVars, formulaVars, Area, Cabinet, counters>>

\* from('Area').delete().eq('id', area_id); its error is logged only.
AreaDelete(c) ==
    LET l == creq[c]
        rows == {a \in Area : a.id = l.areaId}
    IN
    /\ l.pc = "areaDelete"
    /\ \E ok \in BOOLEAN :
        LET l1 == IF ok /\ rows # {}
                  THEN [l EXCEPT !.h.areaDeleted = l.areaId,
                                 !.h.orphaned = (\E k \in Cabinet : k.area_id = l.areaId)]
                  ELSE l
        IN
        /\ Area' = IF ok THEN Area \ rows ELSE Area
        /\ CabinetRespond(c, l1, DeletionSuccess(l1))
    /\ UNCHANGED <<deployed, registration, inventoryVars, formulaVars, Cabinet, counters>>

HandleRegistration(c) ==
    \/ AreaLookup(c)
    \/ AreaInsert(c)
    \/ CabinetCheck(c)
    \/ CabinetInsert(c)
    \/ CabinetUploadSettle(c)
    \/ CabinetUpdate(c)

HandleDeletion(c) ==
    \/ DeletionSelect(c)
    \/ DeletionDelete(c)
    \/ DeletionCount(c)
    \/ AreaDelete(c)

HandleCabinet(c) == HandleRegistration(c) \/ HandleDeletion(c)

NextCabinet ==
    \E c \in CabinetReqs :
        ReceiveRegistration(c) \/ ReceiveDeletion(c) \/ HandleCabinet(c)

SpecCabinet == Init /\ [][NextCabinet]_vars

\* A registration arrives when no cabinet request is being handled.
ReceiveRegistrationAfter(c) ==
    /\ \A q \in CabinetReqs : creq[q].pc \in {"idle", "responded"}
    /\ ReceiveRegistration(c)

\* Registrations only, one after the other, in either revision.
NextRegistration ==
    \E c \in CabinetReqs : ReceiveRegistrationAfter(c) \/ HandleRegistration(c)

SpecRegistration == InitRegistration /\ [][NextRegistration]_vars

----------------------------------------------------------------------------
(* Properties *)

Answered(r) == req[r].pc = "responded"
\* The body of the response is the array of one result / the { error } object.
Succeeded(r) == Answered(r) /\ "results" \in DOMAIN req[r].response.body
Failed(r) == Answered(r) /\ "error" \in DOMAIN req[r].response.body
Result(r) == req[r].response.body.results[1]
\* The Substance rows request r inserted.
CreatedBy(r) == {k \in DOMAIN Substance : Substance[k].by = r}
\* The uploads request r issued.
Issued(r) == {res \in Resolutions : req[r].up[res] # "none"}

\* C1: a request whose identifier already has a Substance row when its
\* existence check runs never calls the registry, inserts no Substance row, and
\* its result has isNewSubstance = false.
C1_ExistingIsNotFetched ==
    \A r \in Reqs :
        req[r].h.found >= 1 =>
            /\ req[r].h.calls = 0
            /\ req[r].h.created = 0
            /\ CreatedBy(r) = {}
            /\ Succeeded(r) => ~Result(r).isNewSubstance

\* C2: a request whose identifier had no Substance row at its existence check
\* and that ends in a success response inserted exactly one Substance row, and
\* its result has isNewSubstance = true.
C2_NewIsCreatedOnce ==
    \A r \in Reqs :
        (Succeeded(r) /\ req[r].h.found = 0) =>
            /\ Cardinality(CreatedBy(r)) = 1
            /\ CreatedBy(r) = {req[r].h.created}
            /\ Result(r).isNewSubstance

C2_Witness ==
    \E r \in Reqs :
        /\ Succeeded(r)
        /\ req[r].h.found = 0
        /\ Cardinality(CreatedBy(r)) = 1
        /\ Result(r).isNewSubstance
        /\ deployed = "serve"

\* C3: under any interleaving of registration requests the store holds at most
\* one Substance row per external identifier.
C3_OneRowPerIdentifier ==
    \A i, j \in DOMAIN Substance :
        (Substance[i].cas_rn # NullStr /\ Substance[i].cas_rn = Substance[j].cas_rn)
            => i = j

\* C4: every Inventory row references the key of a Substance row of the store,
\* and a request issues its Inventory insert only with a substance key it got
\* from its existence check or from its own successful Substance insert.
C4_InventoryReferencesSubstance ==
    /\ \A i \in DOMAIN Inventory : Inventory[i].substance_id \in DOMAIN Substance
    /\ \A r \in Reqs :
        (req[r].pc = "insertInventory" \/ req[r].h.inv # "none") =>
            /\ req[r].substanceId \in DOMAIN Substance
            /\ \/ req[r].h.found = 1 /\ req[r].h.created = 0
                    /\ Substance[req[r].substanceId].cas_rn = req[r].casRn
               \/ req[r].h.created = req[r].substanceId

C4_Witness ==
    \E r1, r2 \in Reqs :
        /\ req[r1].h.inv = "ok" /\ req[r1].h.created # 0
        /\ req[r2].h.inv = "ok" /\ req[r2].h.found = 1
        /\ Len(Inventory) = 2

\* C5: a fatal failure of a registration request (existence check, registry
\* fetch, Substance insert, Inventory insert) is answered with status 500 and
\* the body { error: <the error's message> }.
C5_FatalIsStatus500 ==
    \A r \in Reqs :
        /\ req[r].h.fatal = "check" =>
                req[r].response = Response(JsonError(MsgLookup), 500)
        /\ req[r].h.fatal = "fetch" =>
                req[r].response = Response(JsonError(MsgRegistry), 500)
        /\ req[r].h.fatal = "substance" =>
                req[r].response = Response(JsonError(MsgSubstance), 500)
        /\ req[r].h.fatal = "inventory" =>
                req[r].response = Response(JsonError(MsgInventory), 500)

\* C6: when auxiliary inserts of a request fail, its Substance row stays in the
\* store, its Inventory insert is still attempted, and when that insert
\* succeeds the response has status 200 and status "success".
C6_AuxiliaryFailureIsNotFatal ==
    \A r \in Reqs :
        req[r].h.auxFailed =>
            /\ CreatedBy(r) = {req[r].h.created}
            /\ Answered(r) => req[r].h.inv # "none"
            /\ (Answered(r) /\ req[r].h.inv = "ok") =>
                    /\ req[r].response.status = 200
                    /\ Succeeded(r)
                    /\ Result(r).status = "success"

\* C7: a request whose Inventory insert fails issues no upload and no URL
\* update, and is answered with status 500 and a non-empty error message.
C7_InventoryFailureIs500 ==
    \A r \in Reqs :
        req[r].h.inv = "err" =>
            /\ Issued(r) = {}
            /\ req[r].h.update = "none"
            /\ Failed(r)
            /\ req[r].response.body.error # ""
            /\ req[r].response.status = 500

\* C8: when a request inserted a Substance row and its Inventory insert failed,
\* the row is still in the store after the error response, and a later request
\* for the same identifier finds it and reports isNewSubstance = false.
C8_OrphanIsFoundLater ==
    \A r1 \in Reqs :
        (Answered(r1) /\ req[r1].h.created # 0 /\ req[r1].h.inv = "err") =>
            /\ CreatedBy(r1) = {req[r1].h.created}
            /\ \A r2 \in Reqs :
                (r2 > r1 /\ req[r2].casRn = req[r1].casRn /\ Succeeded(r2)) =>
                    ~Result(r2).isNewSubstance

\* C9: after a request that supplied both photos has been answered, its row has
\* both URL fields set if both uploads and the update succeeded, and only the
\* successful upload's field set if exactly one upload failed; and a URL field
\* of a row is set only if the upload of that resolution succeeded in the
\* request that inserted the row.
C9_PhotoUrlsFollowUploads ==
    /\ \A r \in Reqs :
        (Answered(r) /\ Issued(r) = Resolutions) =>
            LET row == Inventory[req[r].inventoryId]
                up == req[r].up
            IN
            /\ (up["320"] = "ok" /\ up["160"] = "ok" /\ req[r].h.update = "ok") =>
                    (row.photo_url_320 # NullStr /\ row.photo_url_160 # NullStr)
            /\ (up["320"] = "ok" /\ up["160"] = "err") =>
                    (row.photo_url_320 # NullStr /\ row.photo_url_160 = NullStr)
            /\ (up["320"] = "err" /\ up["160"] = "ok") =>
                    (row.photo_url_320 = NullStr /\ row.photo_url_160 # NullStr)
    /\ \A i \in DOMAIN Inventory :
        /\ Inventory[i].photo_url_320 # NullStr => req[Inventory[i].by].up["320"] = "ok"
        /\ Inventory[i].photo_url_160 # NullStr => req[Inventory[i].by].up["160"] = "ok"

\* C10: once the Inventory insert of a request has succeeded the response is
\* status 200 with a success result; an error response implies that the
\* request inserted no Inventory row.
C10_AfterInsertAlwaysSuccess ==
    \A r \in Reqs :
        /\ (Answered(r) /\ req[r].h.inv = "ok") =>
                (req[r].response.status = 200 /\ Succeeded(r))
        /\ Failed(r) => \A i \in DOMAIN Inventory : Inventory[i].by # r

\* The Inventory rows request r inserted, and the rows of the auxiliary tables
\* that carry the key of a Substance row r inserted.
InsertedBy(r) == {i \in DOMAIN Inventory : Inventory[i].by = r}
AuxiliaryBy(r) == {a \in Auxiliary : a.substance_id \in CreatedBy(r)}

\* C11: a request whose body is not JSON, has no or an empty identifier list, or
\* has no inventoryDetails, is answered with an error before any side effect:
\* no registry call, no Substance, auxiliary or Inventory row, no upload.
C11_MalformedBodyHasNoEffect ==
    \A r \in Reqs :
        req[r].h.body # "ok" =>
            /\ req[r].h.calls = 0
            /\ CreatedBy(r) = {}
            /\ AuxiliaryBy(r) = {}
            /\ InsertedBy(r) = {}
            /\ Issued(r) = {}
            /\ Answered(r) => Failed(r)

\* C12: a request whose registry call fails has made exactly one registry call,
\* has inserted no Substance row, no auxiliary row and no Inventory row, and is
\* answered with an { error } body.
C12_RegistryFailureCreatesNothing ==
    \A r \in Reqs :
        req[r].h.fatal = "fetch" =>
            /\ req[r].h.calls = 1
            /\ req[r].h.created = 0
            /\ CreatedBy(r) = {}
            /\ AuxiliaryBy(r) = {}
            /\ InsertedBy(r) = {}
            /\ Failed(r)

C12_Witness ==
    \E r, q \in Reqs :
        /\ req[r].h.fatal = "fetch"
        /\ Failed(r)
        /\ req[r].casRn = req[q].casRn
        /\ Succeeded(q)
        /\ InsertedBy(q) # {}

TokenOf(i) ==
    {k \in 1..uuids :
        Inventory[i].bottle_identifier =
            Interpolate(req[Inventory[i].by].casRn) \o <<"-">> \o RandomUUID(k)}

\* C14: no two Inventory rows carry the same bottle identifier, and every
\* bottle identifier is the request's identifier, "-", and a token that no
\* other row carries.
C14_BottleIdentifiersDiffer ==
    \A i, j \in DOMAIN Inventory :
        /\ TokenOf(i) # {}
        /\ i # j => /\ Inventory[i].bottle_identifier # Inventory[j].bottle_identifier
                    /\ TokenOf(i) \cap TokenOf(j) = {}

C14_Witness ==
    \E i, j \in DOMAIN Inventory :
        /\ i # j
        /\ Inventory[i].by # Inventory[j].by
        /\ req[Inventory[i].by].casRn = req[Inventory[j].by].casRn
        /\ Inventory[i].substance_id = Inventory[j].substance_id

\* The uploads of request r that have not settled.
InFlight(r) == {res \in Resolutions : req[r].up[res] = "pending"}

\* C17: the Inventory insert of a request is issued only when its substance is
\* resolved and every auxiliary insert has settled; uploads are issued only
\* after the Inventory insert succeeded; the URL update is issued only after
\* every upload has settled; and the response is sent only after all of these
\* have settled.
C17_StepsInOrder ==
    \A r \in Reqs :
        /\ (req[r].pc = "insertInventory" \/ req[r].h.inv # "none") =>
                (req[r].substanceId # 0 /\ req[r].auxPending = {})
        /\ Issued(r) # {} => req[r].h.inv = "ok"
        /\ (req[r].pc = "update" \/ req[r].h.update # "none") =>
                (Issued(r) # {} /\ InFlight(r) = {})
        /\ Answered(r) => (req[r].auxPending = {} /\ InFlight(r) = {})

\* C18: in the revision with auxiliary inserts, a request that created a
\* Substance row issued an auxiliary insert for a collection exactly when the
\* registry record has that collection with at least one row; every auxiliary
\* row carries the key of the Substance row of the request that issued its
\* insert; a request that found its substance issued no auxiliary insert.
C18_AuxiliaryInsertsIffNonEmpty ==
    deployed = "serve" =>
        /\ \A r \in Reqs :
            /\ req[r].h.created # 0 =>
                    \A c \in Collections :
                        c \in req[r].h.auxIssued <=> req[r].fullData[c] = "rows"
            /\ req[r].h.created = 0 => req[r].h.auxIssued = {}
        /\ \A a \in Auxiliary :
            \E r \in Reqs : /\ a.substance_id = req[r].h.created
                            /\ a.coll \in req[r].h.auxIssued

\* C19: a request that has read the results of its uploads issued the update
\* of its Inventory row if at least one upload succeeded and no update
\* otherwise; a URL is written only to the row of a request whose update
\* succeeded; and whatever the outcome of the update the response is status 200
\* with a success result.
C19_OneUpdateAfterUploads ==
    /\ \A r \in Reqs :
        /\ (Answered(r) /\ req[r].h.inv = "ok" /\ req[r].h.fatal = "") =>
            /\ (\E res \in Resolutions : req[r].up[res] = "ok") <=> req[r].h.update # "none"
            /\ Issued(r) = {} => req[r].h.update = "none"
            /\ req[r].response.status = 200 /\ Succeeded(r)
        /\ req[r].pc = "update" => req[r].h.update = "none"
        /\ req[r].h.update # "none" => Inventory[req[r].inventoryId].by = r
    /\ \A i \in DOMAIN Inventory :
        (Inventory[i].photo_url_320 # NullStr \/ Inventory[i].photo_url_160 # NullStr) =>
            /\ req[Inventory[i].by].h.update = "ok"
            /\ req[Inventory[i].by].inventoryId = i

C19_Witness ==
    \E r \in Reqs :
        /\ Answered(r)
        /\ req[r].up["320"] = "err" /\ req[r].up["160"] = "ok"
        /\ req[r].h.update = "err"
        /\ Succeeded(r)
        /\ Inventory[req[r].inventoryId].photo_url_160 = NullStr

\* A tag: "<", at least one character, ">".
HasTag(s) == \E i, j \in 1..Len(s) : s[i] = "<" /\ s[j] = ">" /\ j >= i + 2

\* s with its tags deleted, the leftmost first.
RECURSIVE WithoutTags(_)
WithoutTags(s) ==
    IF ~HasTag(s) THEN s
    ELSE LET i == CHOOSE i \in 1..Len(s) :
                    /\ s[i] = "<" /\ \E j \in (i + 2)..Len(s) : s[j] = ">"
                    /\ \A k \in 1..(i - 1) :
                            ~(s[k] = "<" /\ \E j \in (k + 2)..Len(s) : s[j] = ">")
             j == CHOOSE j \in (i + 2)..Len(s) :
                    s[j] = ">" /\ \A k \in (i + 2)..(j - 1) : s[k] # ">"
         IN SubSeq(s, 1, i - 1) \o WithoutTags(SubSeq(s, j + 1, Len(s)))

\* C20: the molecular formula built from a registry record is the record's
\* formula with every tag deleted, whatever the tag, so that no tag is left
\* ("C<sub>6</sub>H<sub>6</sub>" gives "C6H6"); a record without a formula
\* gives null and nothing is raised.
C20_FormulaTagsRemoved ==
    molecular_formula.state # "none" =>
        /\ molecular_formula.state = "stored"
        /\ molecularFormula.state = "missing" => molecular_formula.value = NullStr
        /\ molecularFormula.state = "text" =>
            /\ molecular_formula.value = WithoutTags(molecularFormula.text)
            /\ ~HasTag(molecular_formula.value)
        /\ molecularFormula.text = Benzene =>
                molecular_formula.value = <<"C", "6", "H", "6">>

\* The registrations and the deletions among the cabinet requests.
Registrations == {c \in CabinetReqs : creq[c].kind = "register"}
Deletions == {c \in CabinetReqs : creq[c].kind = "delete"}

CabinetAnswered(c) == creq[c].pc = "responded"
CabinetFailed(c) == CabinetAnswered(c) /\ "error" \in DOMAIN creq[c].response.body

\* C15: a registration that finds a cabinet of its name in its area inserts no
\* Cabinet row and is answered with { error } and status 409; a registration
\* that fails fatally in any other way is answered with { error } and status
\* 500.
C15_DuplicateIs409OtherFatalIs500 ==
    \A c \in Registrations :
        /\ creq[c].h.fatal = "duplicate" =>
            /\ creq[c].h.inserted = 0
            /\ CabinetFailed(c)
            /\ creq[c].response.status = 409
        /\ creq[c].h.fatal \notin {"", "duplicate"} =>
            /\ CabinetFailed(c)
            /\ creq[c].response.status = 500

\* C16: a deletion that succeeds has removed the cabinet of the given id, and
\* has deleted the Area the cabinet was in exactly when no cabinet was left in
\* it; an Area that a cabinet references is never deleted; a deletion without
\* an id, or whose id matches no cabinet, deletes nothing and is answered with
\* an error.
C16_DeletionRemovesCabinetAndEmptyArea ==
    \A c \in Deletions :
        LET l == creq[c] IN
        /\ (CabinetAnswered(c) /\ ~CabinetFailed(c)) =>
            /\ \A k \in Cabinet : k.id # l.cabinetId
            /\ l.h.emptied => l.h.areaDeleted = l.areaId
        /\ l.h.areaDeleted # 0 => (l.h.emptied /\ ~l.h.orphaned)
        /\ l.h.fatal \in {"missing", "notFound"} =>
            /\ l.h.removed = 0
            /\ l.h.areaDeleted = 0
            /\ CabinetFailed(c)

\* C22: whatever the interleaving of registrations and deletions, every Cabinet
\* row references an Area row that exists.
C22_CabinetReferencesArea ==
    \A k \in Cabinet : \E a \in Area : a.id = k.area_id

\* C23: after any sequence of registrations the store holds at most one Area
\* row per area name, and at most one Cabinet row per area and cabinet name.
C23_OneAreaPerNameOneCabinetPerPair ==
    /\ \A a, b \in Area : a.name = b.name => a = b
    /\ \A k, j \in Cabinet : (k.area_id = j.area_id /\ k.name = j.name) => k = j

\* C21: every request that has been received is answered in the end, whatever
\* the outcome of each of its steps, provided every awaited call settles; and
\* it is answered once: its response, once sent, is never replaced.
C21_EveryRequestAnsweredOnce ==
    /\ \A r \in Reqs : (req[r].pc # "idle") ~> Answered(r)
    /\ [][\A r \in Reqs :
            Answered(r) => /\ req[r].response # NoResponse
                           /\ req'[r].pc = "responded"
                           /\ req'[r].response = req[r].response]_vars

\* A request that failed at a step and one that went through every step, photos
\* included, have both been answered.
C21_Witness ==
    \E r, q \in Reqs :
        /\ Answered(r) /\ req[r].h.fatal # ""
        /\ Answered(q) /\ req[q].h.fatal = "" /\ req[q].h.update # "none"

====
